---- MODULE Spec2Model ----
(***************************************************************************)
(* SVG Animator (main.py): the Streamlit submit logic, get_animated_svg    *)
(* and the response sanitizer clean_svg_response.                          *)
(*                                                                         *)
(* A text is a sequence of characters, each character a one-character      *)
(* string (U+00A0 and the backtick have names).  The regular expressions   *)
(* of clean_svg_response are modelled by what Python's re module does with *)
(* them: leftmost match, greedy or lazy quantifiers with backtracking,     *)
(* non-overlapping substitution.                                           *)
(***************************************************************************)
EXTENDS Integers, Sequences, FiniteSets

VARIABLES
    config,               \* the three connection parameters (main.py 15-17)
    form,                 \* the three text areas at the time of the click
    pc,                   \* position of the script run
    response_text,        \* argument of clean_svg_response
    cleaned_text,         \* local variable of clean_svg_response
    animated_svg_result,  \* value returned by get_animated_svg
    ui,                   \* Streamlit elements emitted by this run
    calls                 \* chat.completions.create calls of this run

vars ==
    <<config, form, pc, response_text, cleaned_text, animated_svg_result, ui, calls>>

---------------------------------------------------------------------------
(* Characters *)

\* U+00A0, written '\xa0' in the source.
NBSP ==
    "nbsp"

\* Python's None.  No text equals it: every element of a text is one character.
None ==
    <<"<None>">>

\* What \s matches and what str.strip() strips (Unicode str patterns), as
\* far as the characters of the model go.
WhiteSpace ==
    {" ", "\t", "\n", "\r", "\f", NBSP}

LowerLetters ==
    {"a", "b", "c", "d", "e", "f", "g", "h", "i", "j", "k", "l", "m",
     "n", "o", "p", "q", "r", "s", "t", "u", "v", "w", "x", "y", "z"}

UpperLetters ==
    {"A", "B", "C", "D", "E", "F", "G", "H", "I", "J", "K", "L", "M",
     "N", "O", "P", "Q", "R", "S", "T", "U", "V", "W", "X", "Y", "Z"}

Digits ==
    {"0", "1", "2", "3", "4", "5", "6", "7", "8", "9"}

\* The character class [a-zA-Z0-9\-:] of both attribute patterns.
KeyChars ==
    LowerLetters \cup UpperLetters \cup Digits \cup {"-", ":"}

\* The complement of the character class [^"\s>].
ValueStop ==
    WhiteSpace \cup {"\"", ">"}

\* As Lower, without re.IGNORECASE.
LowerCaseSensitive(c) ==
    c

\* re.IGNORECASE: the letters of the fence pattern are s, v and g.
Lower(c) ==
    CASE c = "S" -> "s"
      [] c = "V" -> "v"
      [] c = "G" -> "g"
      [] OTHER -> c

\* The backtick (the string lexer of TLA+ does not take the character itself).
BACKTICK ==
    "bt"

Fence ==
    <<BACKTICK, BACKTICK, BACKTICK>>

SvgTag ==
    <<"s", "v", "g">>

SvgOpen ==
    <<"<", "s", "v", "g">>

SvgClose ==
    <<"<", "/", "s", "v", "g", ">">>

---------------------------------------------------------------------------
(* Regular-expression primitives *)

\* The literal pat matches s at position i (case-insensitively).
MatchesAt(s, i, pat) ==
    /\ i + Len(pat) - 1 <= Len(s)
    /\ \A k \in 1..Len(pat) : Lower(s[i + k - 1]) = pat[k]

\* Length of the longest run of characters of S that starts at position i.
RECURSIVE SpanIn(_, _, _)
SpanIn(s, i, S) ==
    IF i > Len(s) \/ s[i] \notin S THEN 0 ELSE 1 + SpanIn(s, i + 1, S)

\* Length of the longest run of characters outside S that starts at i.
RECURSIVE SpanNotIn(_, _, _)
SpanNotIn(s, i, S) ==
    IF i > Len(s) \/ s[i] \in S THEN 0 ELSE 1 + SpanNotIn(s, i + 1, S)

\* Length of the longest run of characters of S that ends at position i.
RECURSIVE SpanBack(_, _, _)
SpanBack(s, i, S) ==
    IF i < 1 \/ s[i] \notin S THEN 0 ELSE 1 + SpanBack(s, i - 1, S)

---------------------------------------------------------------------------
(* Step 1: re.search of the fence pattern, with DOTALL and IGNORECASE:     *)
(*   FENCE (?:svg)? \s* ( <svg .*? </svg> ) \s* FENCE                       *)
(* where FENCE stands for three backticks.                                 *)

\* </svg> \s* FENCE matches at e: where the lazy .*? may stop.
ClosesAt(s, e) ==
    /\ MatchesAt(s, e, SvgClose)
    /\ MatchesAt(s, e + 6 + SpanIn(s, e + 6, WhiteSpace), Fence)

\* .*? : the first position from e on where the rest of the pattern matches
\* (0: none).
RECURSIVE LazyEnd(_, _)
LazyEnd(s, e) ==
    IF e + 5 > Len(s) THEN 0
    ELSE IF ClosesAt(s, e) THEN e
    ELSE LazyEnd(s, e + 1)

\* Start of group 1 for a match that starts at i: after the fence, the
\* optional svg (greedy) and all the whitespace (\s* cannot give a
\* character back to '<').
GroupStart(s, i) ==
    LET j == IF MatchesAt(s, i + 3, SvgTag) THEN i + 6 ELSE i + 3
    IN  j + SpanIn(s, j, WhiteSpace)

\* Group 1 of the match of the fence pattern that starts at i (<<>>: none).
FenceGroupAt(s, i) ==
    IF ~MatchesAt(s, i, Fence) THEN <<>>
    ELSE LET g == GroupStart(s, i)
         IN  IF ~MatchesAt(s, g, SvgOpen) THEN <<>>
             ELSE LET e == LazyEnd(s, g + 4)
                  IN  IF e = 0 THEN <<>> ELSE SubSeq(s, g, e + 5)

\* re.search: group 1 of the leftmost match from position i on (<<>>: no match).
RECURSIVE FenceSearch(_, _)
FenceSearch(s, i) ==
    IF i > Len(s) THEN <<>>
    ELSE LET g == FenceGroupAt(s, i)
         IN  IF g # <<>> THEN g ELSE FenceSearch(s, i + 1)

\* main.py 61-65
RemoveFences(text) ==
    LET group == FenceSearch(text, 1)
    IN  IF group # <<>> THEN group ELSE text

---------------------------------------------------------------------------
(* Step 2: cleaned_text.replace('\xa0', ' ').strip() *)

\* As ReplaceNbsp, without the replacement.
ReplaceNbspSkipped(text) ==
    text

ReplaceNbsp(text) ==
    [k \in 1..Len(text) |-> IF text[k] = NBSP THEN " " ELSE text[k]]

Strip(text) ==
    LET lead == SpanIn(text, 1, WhiteSpace)
        trail == SpanBack(text, Len(text), WhiteSpace)
    IN  IF lead = Len(text) THEN <<>>
        ELSE SubSeq(text, lead + 1, Len(text) - trail)

\* main.py 68
NormalizeWhitespace(text) ==
    Strip(ReplaceNbsp(text))

---------------------------------------------------------------------------
(* Step 3: re.sub(r'([a-zA-Z0-9\-:]+=)([^"\s>]+)', r'\1"\2"', text) *)

\* Length of the key of a match that starts at i (0: no match): the whole
\* run of key characters, then '='.
KeyAt(s, i) ==
    LET k == SpanIn(s, i, KeyChars)
    IN  IF k > 0 /\ i + k <= Len(s) /\ s[i + k] = "=" THEN k ELSE 0

\* As ValueAt, with '=' left out of the value's character class.
ValueAtStopsAtEquals(s, i, k) ==
    IF k = 0 THEN 0 ELSE SpanNotIn(s, i + k + 1, ValueStop \cup {"="})

\* Length of the value of a match whose key starts at i and is k long.
ValueAt(s, i, k) ==
    IF k = 0 THEN 0 ELSE SpanNotIn(s, i + k + 1, ValueStop)

\* As QuoteFrom, with * for + in the value's quantifier: a key with nothing
\* after its '=' is given an empty quoted value.
RECURSIVE QuoteFromEmptyValue(_, _)
QuoteFromEmptyValue(s, i) ==
    IF i > Len(s) THEN <<>>
    ELSE LET k == KeyAt(s, i)
             v == ValueAt(s, i, k)
         IN  IF k > 0
             THEN SubSeq(s, i, i + k) \o <<"\"">> \o SubSeq(s, i + k + 1, i + k + v)
                      \o <<"\"">> \o QuoteFromEmptyValue(s, i + k + v + 1)
             ELSE <<s[i]>> \o QuoteFromEmptyValue(s, i + 1)

RECURSIVE QuoteFrom(_, _)
QuoteFrom(s, i) ==
    IF i > Len(s) THEN <<>>
    ELSE LET k == KeyAt(s, i)
             v == ValueAt(s, i, k)
         IN  IF v > 0
             THEN SubSeq(s, i, i + k) \o <<"\"">> \o SubSeq(s, i + k + 1, i + k + v)
                      \o <<"\"">> \o QuoteFrom(s, i + k + v + 1)
             ELSE <<s[i]>> \o QuoteFrom(s, i + 1)

\* main.py 71
FixUnquoted(text) ==
    QuoteFrom(text, 1)

---------------------------------------------------------------------------
(* Step 4: re.sub(r'\s+([a-zA-Z0-9\-:]+)=""', '', text) *)

\* Length of the match of the empty-attribute pattern that starts at i
\* (0: no match): all the whitespace, the whole key run, then =""
EmptyAttrAt(s, i) ==
    LET w == SpanIn(s, i, WhiteSpace)
        k == IF w > 0 THEN SpanIn(s, i + w, KeyChars) ELSE 0
    IN  IF k > 0 /\ MatchesAt(s, i + w + k, <<"=", "\"", "\"">>)
        THEN w + k + 3 ELSE 0

RECURSIVE DropEmptyFrom(_, _)
DropEmptyFrom(s, i) ==
    IF i > Len(s) THEN <<>>
    ELSE LET m == EmptyAttrAt(s, i)
         IN  IF m > 0 THEN DropEmptyFrom(s, i + m)
             ELSE <<s[i]>> \o DropEmptyFrom(s, i + 1)

\* main.py 74
RemoveEmpty(text) ==
    DropEmptyFrom(text, 1)

---------------------------------------------------------------------------
(* clean_svg_response as a function, main.py 49-76 *)

\* As Falsy, for the test response_text == "".
FalsyEmptyOnly(text) ==
    text = <<>>

\* "not response_text": None or the empty string
Falsy(text) ==
    text = None \/ text = <<>>

clean_svg_response(text) ==
    IF Falsy(text) THEN <<>>
    ELSE RemoveEmpty(FixUnquoted(NormalizeWhitespace(RemoveFences(text))))

---------------------------------------------------------------------------
(* Configuration, main.py 15-17 *)

EndpointPlaceholder ==
    "YOUR_AZURE_OPENAI_ENDPOINT_URL"

ApiKeyPlaceholder ==
    "YOUR_AZURE_OPENAI_API_KEY"

DeploymentPlaceholder ==
    "YOUR_DEPLOYMENT_NAME"

\* os.getenv(name, placeholder): the environment's value or the placeholder.
Configs ==
    [AZURE_OPENAI_ENDPOINT : {EndpointPlaceholder, "https://example.openai.azure.com"},
     AZURE_OPENAI_API_KEY : {ApiKeyPlaceholder, "key"},
     AZURE_OPENAI_DEPLOYMENT_NAME : {DeploymentPlaceholder, "gpt"}]

\* As Configured, with any() for all().
ConfiguredAny(c) ==
    \/ c.AZURE_OPENAI_ENDPOINT # EndpointPlaceholder
    \/ c.AZURE_OPENAI_API_KEY # ApiKeyPlaceholder
    \/ c.AZURE_OPENAI_DEPLOYMENT_NAME # DeploymentPlaceholder

\* The negated condition of main.py 93-95: all([... != placeholder ...])
Configured(c) ==
    /\ c.AZURE_OPENAI_ENDPOINT # EndpointPlaceholder
    /\ c.AZURE_OPENAI_API_KEY # ApiKeyPlaceholder
    /\ c.AZURE_OPENAI_DEPLOYMENT_NAME # DeploymentPlaceholder

---------------------------------------------------------------------------
(* The form, main.py 190-212 *)

\* The text areas as the page first shows them: each holds its default value
\* (main.py 190-209).
DefaultForm ==
    [svg_code_input |-> "<svg/>", description_input |-> "a face",
     animation_input |-> "wave"]

\* What the three text areas may hold when the button is clicked.
Forms ==
    [svg_code_input : {"", "<svg/>"},
     description_input : {"", "a face"},
     animation_input : {"", "wave"}]

\* As AllFieldsProvided, with "and" for "or".
AllFieldsProvidedAnd(f) ==
    ~(f.svg_code_input = "" /\ f.description_input = "" /\ f.animation_input = "")

\* The negated condition of main.py 225.
AllFieldsProvided(f) ==
    ~(f.svg_code_input = "" \/ f.description_input = "" \/ f.animation_input = "")

---------------------------------------------------------------------------
(* What the model may answer *)

\* Longest text of the exhaustive attribute family.
MaxAttrLen ==
    5

\* Most tokens of a text of the exhaustive fence family.
MaxFenceTokens ==
    5

AttrChars ==
    {"a", "=", "\"", " ", NBSP, ">"}

\* Every text of at most MaxAttrLen characters of AttrChars.
AttrTexts ==
    UNION {[1..n -> AttrChars] : n \in 0..MaxAttrLen}

FenceTokens ==
    {Fence, SvgTag, <<"x">>, <<"\n">>, SvgOpen \o <<">">>, SvgClose}

RECURSIVE Concat(_)
Concat(ts) ==
    IF ts = <<>> THEN <<>> ELSE Head(ts) \o Concat(Tail(ts))

\* Every concatenation of at most MaxFenceTokens tokens of FenceTokens.
FenceTexts ==
    {Concat(ts) : ts \in UNION {[1..n -> FenceTokens] : n \in 0..MaxFenceTokens}}

Prose ==
    {<<>>, <<"x">>, <<"x", " ">>}

LanguageTags ==
    {<<>>, SvgTag, <<"S", "V", "G">>, <<"x">>}

Gaps ==
    {<<>>, <<"\n">>}

Blocks ==
    {SvgOpen \o <<">">> \o SvgClose,
     <<"<", "S", "V", "G", ">", "<", "/", "S", "V", "G", ">">>,
     SvgOpen \o <<" ", "a", "=", "a", ">", NBSP>> \o SvgClose}

\* prose, fence, language tag, block, fence, prose
ShapedTexts ==
    {p \o Fence \o t \o g \o b \o h \o Fence \o q :
        p \in Prose, t \in LanguageTags, g \in Gaps, b \in Blocks, h \in Gaps, q \in Prose}

\* Scenario A of the specification (section 8).
ScenarioA ==
    <<BACKTICK, BACKTICK, BACKTICK, "s", "v", "g", "\n", "<", "s", "v",
      "g", " ", "w", "i", "d", "t", "h", "=", "\"", "1", "\"", " ", "t",
      "r", "a", "n", "s", "f", "o", "r", "m", "=", "s", "c", "a", "l", "e",
      "(", "2", ")", " ", "f", "r", "o", "m", "=", "\"", "\"", ">", "c",
      "o", "n", "t", "e", "n", "t", "<", "/", "s", "v", "g", ">", "\n",
      BACKTICK, BACKTICK, BACKTICK>>

\* Scenario B of the specification (section 8): a plain-text refusal.
ScenarioB ==
    <<"S", "o", "r", "r", "y", ",", " ", "I", " ", "c", "a", "n", "'", "t",
      " ", "h", "e", "l", "p", " ", "w", "i", "t", "h", " ", "t", "h", "a",
      "t", ".">>

\* A quoted value that holds a URL query.
QuotedQuery ==
    <<"<", "a", " ", "h", "r", "e", "f", "=", "\"", "u", "?", "a", "=",
      "b", "\"", ">">>

Examples ==
    {ScenarioA, ScenarioB, QuotedQuery}

\* response.choices[0].message.content: a text
ApiTexts ==
    AttrTexts \cup FenceTexts \cup ShapedTexts \cup Examples

---------------------------------------------------------------------------
(* The script run *)

\* A name that is not bound yet.
Unset ==
    <<"<unset>">>

StartsWith(s, pat) ==
    Len(pat) <= Len(s) /\ SubSeq(s, 1, Len(pat)) = pat

\* As Accepted, comparing in any letter case.
AcceptedAnyCase(result) ==
    ~Falsy(result) /\ MatchesAt(Strip(result), 1, SvgOpen)

\* The condition of main.py 232:
\*   animated_svg_result and animated_svg_result.strip().startswith('<svg')
Accepted(result) ==
    ~Falsy(result) /\ StartsWith(Strip(result), SvgOpen)

Init ==
    /\ config \in Configs
    /\ form = DefaultForm
    /\ pc = "idle"
    /\ response_text = Unset
    /\ cleaned_text = Unset
    /\ animated_svg_result = Unset
    /\ ui = {}
    /\ calls = 0

\* main.py 223-230: the button is clicked, the text areas holding f.
Click ==
    /\ pc = "idle"
    /\ \E f \in Forms : form' = f
    /\ IF AllFieldsProvided(form')
       THEN pc' = "get_animated_svg" /\ ui' = ui
       ELSE pc' = "done" /\ ui' = ui \cup {"warning"}
    /\ UNCHANGED <<config, response_text, cleaned_text, animated_svg_result, calls>>

\* main.py 93-131: the placeholder check, then the request.
Request ==
    /\ pc = "get_animated_svg"
    /\ IF Configured(config)
       THEN /\ pc' = "calling"
            /\ calls' = calls + 1
            /\ UNCHANGED <<ui, animated_svg_result>>
       ELSE /\ pc' = "result"
            /\ ui' = ui \cup {"config_error"}
            /\ animated_svg_result' = None
            /\ calls' = calls
    /\ UNCHANGED <<config, form, response_text, cleaned_text>>

\* main.py 133-134: the call returns; content is None or a text.
CallReturns ==
    /\ pc = "calling"
    /\ \E content \in ApiTexts \cup {None} : response_text' = content
    /\ pc' = "clean"
    /\ UNCHANGED <<config, form, cleaned_text, animated_svg_result, ui, calls>>

\* main.py 136-138: the call raises; the exception is caught.
CallRaises ==
    /\ pc = "calling"
    /\ ui' = ui \cup {"api_error"}
    /\ animated_svg_result' = None
    /\ pc' = "result"
    /\ UNCHANGED <<config, form, response_text, cleaned_text, calls>>

\* main.py 57-65
CleanFences ==
    /\ pc = "clean"
    /\ IF Falsy(response_text)
       THEN /\ animated_svg_result' = <<>>
            /\ pc' = "result"
            /\ cleaned_text' = cleaned_text
       ELSE /\ cleaned_text' = RemoveFences(response_text)
            /\ pc' = "clean_whitespace"
            /\ animated_svg_result' = animated_svg_result
    /\ UNCHANGED <<config, form, response_text, ui, calls>>

\* main.py 68
CleanWhitespace ==
    /\ pc = "clean_whitespace"
    /\ cleaned_text' = NormalizeWhitespace(cleaned_text)
    /\ pc' = "clean_unquoted"
    /\ UNCHANGED <<config, form, response_text, animated_svg_result, ui, calls>>

\* main.py 71
CleanUnquoted ==
    /\ pc = "clean_unquoted"
    /\ cleaned_text' = FixUnquoted(cleaned_text)
    /\ pc' = "clean_empty"
    /\ UNCHANGED <<config, form, response_text, animated_svg_result, ui, calls>>

\* main.py 74-76 and 134
CleanEmpty ==
    /\ pc = "clean_empty"
    /\ cleaned_text' = RemoveEmpty(cleaned_text)
    /\ animated_svg_result' = cleaned_text'
    /\ pc' = "result"
    /\ UNCHANGED <<config, form, response_text, ui, calls>>

\* main.py 232-262
ShowResult ==
    /\ pc = "result"
    /\ ui' = ui \cup
            (IF Accepted(animated_svg_result)
             THEN {"success", "render", "download", "code_xml"}
             ELSE {"invalid_error"}
                  \cup (IF Falsy(animated_svg_result) THEN {} ELSE {"code_text"}))
    /\ pc' = "done"
    /\ UNCHANGED <<config, form, response_text, cleaned_text, animated_svg_result, calls>>

\* Streamlit runs the script again on the next interaction.
Rerun ==
    /\ pc = "done"
    /\ pc' = "idle"
    /\ response_text' = Unset
    /\ cleaned_text' = Unset
    /\ animated_svg_result' = Unset
    /\ ui' = {}
    /\ calls' = 0
    /\ UNCHANGED <<config, form>>

Next ==
    \/ Click
    \/ Request
    \/ CallReturns
    \/ CallRaises
    \/ CleanFences
    \/ CleanWhitespace
    \/ CleanUnquoted
    \/ CleanEmpty
    \/ ShowResult
    \/ Rerun

Spec ==
    Init /\ [][Next]_vars

---------------------------------------------------------------------------
(* Vocabulary of the properties *)

\* sub occurs in s as a contiguous run of characters.
Contains(s, sub) ==
    \E i \in 1..(Len(s) - Len(sub) + 1) : SubSeq(s, i, i + Len(sub) - 1) = sub

\* clean_svg_response has returned: animated_svg_result is its value for
\* response_text.
Sanitized ==
    pc \in {"result", "done"} /\ response_text # Unset

EmptyValue ==
    <<"=", "\"", "\"">>

\* s holds key="" for some key: a key character, then ="".
HasEmptyAttr(s) ==
    \E i \in 1..(Len(s) - 3) : s[i] \in KeyChars /\ SubSeq(s, i + 1, i + 3) = EmptyValue

\* The places <<p, q>> of s where a value already stands in double quotes:
\* a key character, '=', the opening quote at p, a quote-free text, the
\* closing quote at q.
QuotedValues(s) ==
    {pq \in (1..Len(s)) \X (1..Len(s)) :
        /\ pq[1] >= 3 /\ pq[1] < pq[2]
        /\ s[pq[1]] = "\"" /\ s[pq[2]] = "\""
        /\ s[pq[1] - 1] = "=" /\ s[pq[1] - 2] \in KeyChars
        /\ \A m \in (pq[1] + 1)..(pq[2] - 1) : s[m] # "\""}

\* The text that step 1 keeps: the fenced block if there is one, else the
\* raw text.
KeptText ==
    RemoveFences(response_text)

\* s[i..e-1] is a key: a whole run of key characters that ends before e.
KeyRun(s, i, e) ==
    /\ 1 <= i /\ i < e
    /\ \A m \in i..(e - 1) : s[m] \in KeyChars
    /\ i = 1 \/ s[i - 1] \notin KeyChars

\* s[e+1..j] is a value: a whole non-empty run of characters that are not
\* whitespace, '>' or a double quote.
ValueRun(s, e, j) ==
    /\ e < j /\ j <= Len(s)
    /\ \A m \in (e + 1)..j : s[m] \notin ValueStop
    /\ j = Len(s) \/ s[j + 1] \in ValueStop

\* No '=' stands between position i and the whitespace, '>', double quote
\* or start of text before it.
StandsFree(s, i) ==
    \A m \in 1..(i - 1) : s[m] = "=" => \E d \in (m + 1)..(i - 1) : s[d] \in ValueStop

\* key="value" for the occurrence key=value at s[i..j], its '=' at e.
QuotedForm(s, i, e, j) ==
    SubSeq(s, i, e) \o <<"\"">> \o SubSeq(s, e + 1, j) \o <<"\"">>

\* The occurrences <<i, e, j>> of key=value in s.
Occurrences(s) ==
    {o \in (1..Len(s)) \X {e \in 1..Len(s) : s[e] = "="} \X (1..Len(s)) :
        KeyRun(s, o[1], o[2]) /\ ValueRun(s, o[2], o[3])}

\* t is pat, in any letter case (the letters of the patterns are s, v, g).
InAnyCase(t, pat) ==
    /\ Len(t) = Len(pat)
    /\ \A k \in 1..Len(pat) :
          t[k] = pat[k] \/ <<pat[k], t[k]>> \in {<<"s", "S">>, <<"v", "V">>, <<"g", "G">>}

\* s[lo..hi] consists of characters of S.
AllIn(s, lo, hi, S) ==
    \A m \in lo..hi : s[m] \in S

\* s[b..e] is a block: it starts with the opening <svg tag, ends with the
\* closing </svg> tag (in any letter case) and holds no fence.
IsBlock(s, b, e) ==
    /\ e - b + 1 >= Len(SvgOpen) + Len(SvgClose)
    /\ e <= Len(s)
    /\ InAnyCase(SubSeq(s, b, b + 3), SvgOpen)
    /\ InAnyCase(SubSeq(s, e - 5, e), SvgClose)
    /\ ~Contains(SubSeq(s, b, e), Fence)

\* s is prose, fence, language tag, block, fence, prose, the opening fence
\* at f and the block at s[b..e]; the prose before the fence holds no fence,
\* whitespace may stand before and after the block.  With svgOnly the tag
\* is absent or svg in any letter case, else it is any run of letters.
FencedShape(s, f, b, e, svgOnly) ==
    /\ f + 3 <= b
    /\ SubSeq(s, f, f + 2) = Fence
    /\ ~Contains(SubSeq(s, 1, f - 1), Fence)
    /\ \E t \in (f + 3)..b :
          /\ AllIn(s, f + 3, t - 1, LowerLetters \cup UpperLetters)
          /\ svgOnly => (t = f + 3 \/ InAnyCase(SubSeq(s, f + 3, t - 1), SvgTag))
          /\ AllIn(s, t, b - 1, WhiteSpace)
    /\ IsBlock(s, b, e)
    /\ \E g \in (e + 1)..(Len(s) - 2) :
          AllIn(s, e + 1, g - 1, WhiteSpace) /\ SubSeq(s, g, g + 2) = Fence

\* The places <<f, b, e>> where s has the fenced shape.
FencedShapes(s, svgOnly) ==
    {x \in {f \in 1..Len(s) : s[f] = BACKTICK} \X {b \in 1..Len(s) : s[b] = "<"}
            \X {e \in 1..Len(s) : s[e] = ">"} :
        FencedShape(s, x[1], x[2], x[3], svgOnly)}

\* Some connection parameter still holds its placeholder.
AnyPlaceholder ==
    \/ config.AZURE_OPENAI_ENDPOINT = "YOUR_AZURE_OPENAI_ENDPOINT_URL"
    \/ config.AZURE_OPENAI_API_KEY = "YOUR_AZURE_OPENAI_API_KEY"
    \/ config.AZURE_OPENAI_DEPLOYMENT_NAME = "YOUR_DEPLOYMENT_NAME"

\* Some text area was empty when the button was clicked.
SomeFieldEmpty ==
    \E field \in DOMAIN form : form[field] = ""

\* r is a text that, its leading whitespace aside, begins with <svg in
\* lower case.
BeginsWithSvg(r) ==
    /\ r \notin {None, Unset}
    /\ \E i \in 1..Len(r) :
          /\ \A m \in 1..(i - 1) : r[m] \in WhiteSpace
          /\ i + 3 <= Len(r)
          /\ r[i] = "<" /\ r[i + 1] = "s" /\ r[i + 2] = "v" /\ r[i + 3] = "g"

\* The run has rendered the graphics or offered the download.
Rendered ==
    ui \cap {"success", "render", "download", "code_xml"} # {}

\* s[p..p+m-1] matches the empty-attribute pattern: whitespace, a name, =""
EmptyAttrMatch(s, p, m) ==
    /\ p >= 1 /\ m >= 5 /\ p + m - 1 <= Len(s)
    /\ SubSeq(s, p + m - 3, p + m - 1) = EmptyValue
    /\ \E w \in 1..(m - 4) :
          /\ AllIn(s, p, p + w - 1, WhiteSpace)
          /\ AllIn(s, p + w, p + m - 4, KeyChars)

\* The matches <<p, m>> of the empty-attribute pattern in s.
EmptyAttrMatches(s) ==
    {x \in (1..Len(s)) \X (5..Len(s)) : EmptyAttrMatch(s, x[1], x[2])}

\* For each character of after from j on, its place in before (from i on),
\* or 0 for a character that was put in: after is read as before with
\* characters inserted.
RECURSIVE Origins(_, _, _, _)
Origins(before, after, i, j) ==
    IF j > Len(after) THEN <<>>
    ELSE IF i <= Len(before) /\ before[i] = after[j]
         THEN <<i>> \o Origins(before, after, i + 1, j + 1)
         ELSE <<0>> \o Origins(before, after, i, j + 1)

\* Every match of the empty-attribute pattern in after consists of
\* characters of before, which stand there side by side and match as well.
NoNewEmptyAttr(before, after) ==
    LET o == Origins(before, after, 1, 1)
    IN  \A x \in EmptyAttrMatches(after) :
            /\ o[x[1]] > 0
            /\ \A d \in 0..(x[2] - 1) : o[x[1] + d] = o[x[1]] + d
            /\ EmptyAttrMatch(before, o[x[1]], x[2])

---------------------------------------------------------------------------
(* Properties *)

\* C1: clean_svg_response is idempotent: sanitizing its own result again
\* gives the same result, for every raw text, None and the empty text
\* included.
C1_Idempotent ==
    Sanitized => clean_svg_response(animated_svg_result) = animated_svg_result

\* C2: the unquoted-attribute repair (step 3) leaves every value that already
\* stands in double quotes as it was: name="v", from the name's last
\* character to the closing quote, is in the text after the step as it was
\* before it.
C2_QuotedValuesUntouched ==
    [][pc = "clean_unquoted" =>
        \A pq \in QuotedValues(cleaned_text) :
            Contains(cleaned_text', SubSeq(cleaned_text, pq[1] - 2, pq[2]))]_vars

\* C3: a raw text that holds key="" is sanitized to a text that holds no
\* key="", wherever the attribute stands.
C3_NoEmptyAttrLeft ==
    (Sanitized /\ HasEmptyAttr(response_text)) => ~HasEmptyAttr(animated_svg_result)

\* C4 as claimed: for every occurrence of key=value in the text (value a
\* run without whitespace, '>' or quote), whatever stands before the key,
\* the sanitized text holds key="value".
C4_EveryOccurrenceQuoted ==
    Sanitized =>
        \A o \in Occurrences(KeptText) :
            Contains(animated_svg_result, QuotedForm(KeptText, o[1], o[2], o[3]))

\* C4, amended: for every occurrence of key=value in the text that step 1
\* keeps, where the value is the whole run up to the next whitespace, '>'
\* or double quote and no '=' stands between the key and the whitespace,
\* '>', double quote or start of text before it, the sanitized text holds
\* key="value".
C4_FreeOccurrenceQuoted ==
    Sanitized =>
        \A o \in Occurrences(KeptText) :
            StandsFree(KeptText, o[1]) =>
                Contains(animated_svg_result, QuotedForm(KeptText, o[1], o[2], o[3]))

\* An unquoted key=value was sanitized and its quoted form is new in the text.
C4_Witness ==
    /\ pc = "done"
    /\ response_text # Unset
    /\ ~Contains(response_text, <<"\"">>)
    /\ \E o \in Occurrences(KeptText) :
          /\ StandsFree(KeptText, o[1])
          /\ o[1] > 1
          /\ ~Contains(response_text, QuotedForm(KeptText, o[1], o[2], o[3]))
          /\ Contains(animated_svg_result, QuotedForm(KeptText, o[1], o[2], o[3]))

C6_ConfigErrorForAnyInput ==
    AnyPlaceholder => (calls = 0 /\ (pc = "done" => "config_error" \in ui))

\* C6, amended: with a connection parameter at its placeholder no submission
\* makes a remote call; a submission with all three fields filled in ends
\* with the configuration error reported, and a submission with an empty
\* field ends with the validation warning alone.
C6_ConfigErrorWhenFilled ==
    AnyPlaceholder =>
        /\ calls = 0
        /\ pc # "calling"
        /\ pc = "done" =>
              IF SomeFieldEmpty THEN ui = {"warning"} ELSE "config_error" \in ui

\* A complete submission ended with the configuration error.
C6_Witness ==
    /\ AnyPlaceholder
    /\ config.AZURE_OPENAI_API_KEY = "key"
    /\ ~SomeFieldEmpty
    /\ pc = "done"
    /\ "config_error" \in ui

\* C7: a run renders the result and offers the download only if the result,
\* trimmed, begins with the literal <svg; for any other result (None, empty,
\* a refusal, <SVG) it shows neither and shows the error message instead.
C7_RenderedOnlyIfSvg ==
    /\ Rendered => BeginsWithSvg(animated_svg_result)
    /\ (pc = "done" /\ animated_svg_result # Unset /\ ~BeginsWithSvg(animated_svg_result))
          => (~Rendered /\ "invalid_error" \in ui)

\* A result that begins with <SVG was rejected.
C7_Witness ==
    /\ pc = "done"
    /\ animated_svg_result \notin {None, Unset}
    /\ StartsWith(animated_svg_result, <<"<", "S", "V", "G">>)
    /\ "invalid_error" \in ui
    /\ ~Rendered

\* C8: for the raw input None or empty, clean_svg_response returns the empty
\* text without raising, and the run rejects it: nothing rendered, nothing
\* to download.
C8_EmptyInputRejected ==
    (pc \in {"result", "done"} /\ response_text \in {None, <<>>}) =>
        /\ animated_svg_result = <<>>
        /\ "api_error" \notin ui
        /\ pc = "done" => (~Rendered /\ "invalid_error" \in ui)

\* The model answered None and the run ended.
C8_Witness ==
    pc = "done" /\ response_text = None /\ animated_svg_result = <<>>

\* C9: no text that clean_svg_response works on after step 2, and no text
\* it returns, holds U+00A0.
C9_NoNbsp ==
    /\ pc \in {"clean_unquoted", "clean_empty"} => ~Contains(cleaned_text, <<NBSP>>)
    /\ Sanitized => ~Contains(animated_svg_result, <<NBSP>>)

\* A U+00A0 inside the raw text came out as an ordinary space.
C9_Witness ==
    /\ pc = "done"
    /\ response_text \notin {Unset, None}
    /\ Len(animated_svg_result) = Len(response_text)
    /\ \E i \in 1..Len(response_text) :
          response_text[i] = NBSP /\ animated_svg_result[i] = " "

\* C10: a run makes the remote call at most once, and only with all three
\* fields filled in and no placeholder left; with an empty field it shows
\* the validation warning and nothing else; a call that raises is reported,
\* not repeated, and get_animated_svg returns None to the script.
C10_CallGuarded ==
    /\ calls <= 1
    /\ (calls = 1 \/ pc \in {"calling", "clean"}) => (~SomeFieldEmpty /\ ~AnyPlaceholder)
    /\ (pc = "done" /\ SomeFieldEmpty) => (ui = {"warning"} /\ calls = 0)
    /\ "api_error" \in ui =>
          (calls = 1 /\ pc \in {"result", "done"} /\ animated_svg_result = None)

\* The call raised, the error was reported and the run went on to its end.
C10_Witness ==
    pc = "done" /\ calls = 1 /\ ui = {"api_error", "invalid_error"}

\* C11: the quoting repair (step 3) makes no attribute empty: every match of
\* the empty-attribute pattern in the text after step 3 stood at the same
\* place in the text before it, so step 4 removes only attributes that
\* were empty after the whitespace normalization.
C11_NoNewEmptyAttr ==
    [][pc = "clean_unquoted" => NoNewEmptyAttr(cleaned_text, cleaned_text')]_vars

\* Step 3 has put quotes into a text that holds an empty attribute, and the
\* empty attribute is still there for step 4.
C11_Witness ==
    /\ pc = "clean_empty"
    /\ cleaned_text # NormalizeWhitespace(KeptText)
    /\ EmptyAttrMatches(cleaned_text) # {}
    /\ EmptyAttrMatches(NormalizeWhitespace(KeptText)) # {}

====
